---- MODULE Spec2Model ----
(***************************************************************************)
(* Conway's Game of Life on the fixed 64 x 64 toroidal grid of             *)
(* wasm-game-of-life/src/lib.rs (struct Universe).                         *)
(*                                                                         *)
(* The grid is a FixedBitSet: `length` bits packed into 32-bit blocks.     *)
(* A block (a u32) is written as the set of the positions of its one bits, *)
(* so the u32 value 1 is the set {0}; bit i of the set lives in block      *)
(* i \div 32 at position i % 32.                                           *)
(***************************************************************************)
EXTENDS Integers, Sequences, FiniteSets, TLC

VARIABLES
    universe,        \* the Universe struct: [width, height, cells]
    pre,             \* history: the Universe as it was before the last operation
    last,            \* history: the last operation other than tick
    ticks,           \* history: number of tick calls since `last`
    ops,             \* history: number of operations since construction
    pc,              \* position inside tick: "idle", "loop" (lines 167-184)
    next,            \* tick's local `next` (line 165)
    row,             \* tick's loop variable `row` (line 167)
    col,             \* tick's loop variable `col` (line 168)
    idx,             \* tick's local `idx` of the cell evaluated last (line 169)
    cell,            \* tick's local `cell` (line 170)
    live_neighbors,  \* tick's local `live_neighbors` (line 171)
    heap             \* the heap buffers of the FixedBitSets, by allocation:
                     \* [cells, built, allocated, held]

vars == <<universe, pre, last, ticks, ops, pc, next, row, col, idx, cell, live_neighbors,
          heap>>

locals == <<pc, next, row, col, idx, cell, live_neighbors>>

(***************************************************************************)
(* Bounds of the exploration.                                              *)
(***************************************************************************)
MaxOps == 2          \* operations per run of Spec

MaxTicks == 12       \* tick calls after the preset of a run of SpecRun

MaxStepTicks == 1    \* tick calls per run of SpecStep

MaxGliderTicks == 256    \* tick calls after put_glider in a run of SpecGlider

(***************************************************************************)
(* FixedBitSet (crate fixedbitset, blocks of u32).                         *)
(***************************************************************************)
BITS == 32

\* FixedBitSet::with_capacity(bits): `bits` zero bits in ceil(bits / 32) blocks.
with_capacity(bits) ==
    [length |-> bits,
     data   |-> [b \in 0..(((bits + BITS - 1) \div BITS) - 1) |-> {}]]

\* fbs[bit] (Index<usize>): the bit's value; a bit outside the capacity reads
\* as disabled.
contains(fbs, bit) == bit < fbs.length /\ (bit % BITS) \in fbs.data[bit \div BITS]

\* The assertion of fbs.set(bit, enabled): bit < length, or the call panics.
set_in_bounds(fbs, bit) == bit < fbs.length

\* fbs.set(bit, enabled).
set(fbs, bit, enabled) ==
    [fbs EXCEPT !.data[bit \div BITS] =
        IF enabled THEN @ \cup {bit % BITS} ELSE @ \ {bit % BITS}]

\* fbs.as_slice(): the blocks, in order, as a slice of u32.
as_slice(fbs) == [k \in 1..Cardinality(DOMAIN fbs.data) |-> fbs.data[k - 1]]

\* slice.chunks(n): consecutive pieces of n elements, the last one maybe shorter.
chunks(s, n) ==
    [j \in 1..((Len(s) + n - 1) \div n) |->
        SubSeq(s, (j - 1) * n + 1, IF j * n < Len(s) THEN j * n ELSE Len(s))]

(***************************************************************************)
(* Math::random(): a draw in [0, 1), modelled in tenths (0..9).  A run of  *)
(* init_random consumes one draw per bit, draws[i] at iteration i.         *)
(***************************************************************************)
Half == 5

\* The draws that fall below 0.5 exactly at the cells (row, col) of `shape`
\* (on a 64 x 64 grid), taken at the boundary: 0.4 there, 0.5 elsewhere.
DrawsOf(shape) ==
    [i \in 0..4095 |-> IF <<i \div 64, i % 64>> \in shape THEN 4 ELSE 5]

\* The outcomes of the random source that are explored: a 2 x 2 block and a
\* full 3 x 3 block, both wrapped around the corner of the torus, and a
\* single cell in the corner.
CornerBlock == {<<0, 0>>, <<0, 63>>, <<63, 0>>, <<63, 63>>}

CornerSquare == {63, 0, 1} \X {63, 0, 1}

CornerCell == {<<63, 63>>}

RandomDraws == {DrawsOf(CornerBlock), DrawsOf(CornerSquare), DrawsOf(CornerCell)}

(***************************************************************************)
(* Universe.                                                               *)
(***************************************************************************)
\* index! with row and column exchanged.
index_swapped(c, r, w) == c * w + r

\* index![col, row, width]
index(c, r, w) == r * w + c

\* Universe::get_index
get_index(self, r, column) == r * self.width + column

\* init_random that sets the drawn bits and never resets a bit.
init_random_only_sets(w, h, cs, draws) ==
    LET size == w * h
    IN  [cs EXCEPT !.data =
            [b \in DOMAIN cs.data |->
                {k \in 0..(BITS - 1) :
                    \/ k \in cs.data[b]
                    \/ b * BITS + k < size /\ draws[b * BITS + k] < Half}]]

\* Universe::init_random: for i in 0..size { cells.set(i, Math::random() < 0.5) }
\* Every bit below size is overwritten, any other bit keeps its value.
init_random(w, h, cs, draws) ==
    LET size == w * h
    IN  [cs EXCEPT !.data =
            [b \in DOMAIN cs.data |->
                {k \in 0..(BITS - 1) :
                    IF b * BITS + k < size
                    THEN draws[b * BITS + k] < Half
                    ELSE k \in cs.data[b]}]]

\* Universe::new
new(ty, draws) ==
    LET w    == 64
        h    == 64
        size == w * h
        cs   == with_capacity(size)
    IN  [width  |-> w,
         height |-> h,
         cells  |-> IF ty = "Random" THEN init_random(w, h, cs, draws) ELSE cs]

\* clear that leaves the grid as it is.
clear_keeps(self) == self

\* clear that allocates one row instead of width * height bits.
clear_one_row(self) ==
    LET size == self.width
    IN  [self EXCEPT !.cells = with_capacity(size)]

\* Universe::clear
clear(self) ==
    LET size == self.width * self.height
    IN  [self EXCEPT !.cells = with_capacity(size)]

\* Universe::put_random
put_random(self, draws) ==
    LET nxt == self.cells
    IN  [self EXCEPT !.cells = init_random(self.width, self.height, nxt, draws)]

\* The index put_points passes to set for the point (x, y) (line 112).
point_index_far(self, point) ==
    LET offset_row == 59
        offset_col == 5
        x == point[1]
        y == point[2]
    IN  index(x + offset_col, y + offset_row, self.width)

point_index(self, point) ==
    LET offset_row == 5
        offset_col == 5
        x == point[1]
        y == point[2]
    IN  index(x + offset_col, y + offset_row, self.width)

\* The loop of put_points (lines 111-113) taken whole: next.set(i, true) for
\* the index i of every listed point.  Setting a bit to true is idempotent
\* and the order of the points does not matter, so the loop leaves set
\* exactly the bits that were set before and the bits it names.
put_points_loop(self, nxt, points) ==
    LET named == {point_index(self, points[j]) : j \in DOMAIN points}
    IN  [nxt EXCEPT !.data =
            [b \in DOMAIN nxt.data |->
                nxt.data[b] \cup {i % BITS : i \in {n \in named : n \div BITS = b}}]]

\* put_points that starts from an empty buffer instead of a clone.
put_points_fresh(self, points) ==
    LET nxt == with_capacity(self.width * self.height)
    IN  [self EXCEPT !.cells = put_points_loop(self, nxt, points)]

\* Universe::put_points
put_points(self, points) ==
    LET nxt == self.cells
    IN  [self EXCEPT !.cells = put_points_loop(self, nxt, points)]

GliderPoints == <<<<1, 0>>, <<2, 1>>, <<0, 2>>, <<1, 2>>, <<2, 2>>>>

\* The spaceship mirrored left to right (x becomes 4 - x).
SpaceshipPoints_mirrored ==
    << <<4, 0>>, <<1, 0>>, <<0, 1>>, <<4, 2>>, <<0, 2>>,
       <<3, 3>>, <<2, 3>>, <<1, 3>>, <<0, 3>> >>

\* The points of put_spaceship (lines 122-132).
SpaceshipPoints ==
    << <<0, 0>>, <<3, 0>>, <<4, 1>>, <<0, 2>>, <<4, 2>>,
       <<1, 3>>, <<2, 3>>, <<3, 3>>, <<4, 3>> >>

\* put_line whose two vertical bars on the left start at row 0.
LinePointsAt_overlapping(i) ==
    << <<i, 0>>, <<i, 1>>, <<i + 3, 7>>, <<i + 3, 8>>,
       <<0, i>>, <<1, i>>, <<7, i>>, <<8, i>> >>

\* The points put_line pushes at iteration i, in order.
LinePointsAt(i) ==
    << <<i, 0>>, <<i, 1>>, <<i + 3, 7>>, <<i + 3, 8>>,
       <<0, i + 3>>, <<1, i + 3>>, <<7, i>>, <<8, i>> >>

RECURSIVE LinePointsFrom(_)
LinePointsFrom(i) == IF i >= 6 THEN <<>> ELSE LinePointsAt(i) \o LinePointsFrom(i + 1)

LinePoints == LinePointsFrom(0)

NebraPoints == [i \in 1..6 |-> <<i - 1, 0>>]

\* Universe::put_glider
put_glider(self) == put_points(self, GliderPoints)

\* Universe::put_spaceship
put_spaceship(self) == put_points(self, SpaceshipPoints)

\* Universe::put_line
put_line(self) == put_points(self, LinePoints)

\* Universe::put_nebra
put_nebra(self) == put_points(self, NebraPoints)

\* `cells[idx] as u8`
as_u8(b) == IF b THEN 1 ELSE 0

\* neighbor on a grid with a dead border instead of a torus.
neighbor_dead_border(self, r, column, delta_row, delta_col) ==
    IF delta_row = 0 /\ delta_col = 0
    THEN 0
    ELSE LET neighbor_row == r + (IF delta_row = self.height - 1 THEN -1 ELSE delta_row)
             neighbor_col == column + (IF delta_col = self.width - 1 THEN -1 ELSE delta_col)
         IN  IF \/ neighbor_row < 0 \/ neighbor_row >= self.height
                \/ neighbor_col < 0 \/ neighbor_col >= self.width
             THEN 0
             ELSE as_u8(contains(self.cells, get_index(self, neighbor_row, neighbor_col)))

\* neighbor without the `continue` for the offset (0, 0).
neighbor_counts_self(self, r, column, delta_row, delta_col) ==
    LET neighbor_row == (r + delta_row) % self.height
        neighbor_col == (column + delta_col) % self.width
    IN  as_u8(contains(self.cells, get_index(self, neighbor_row, neighbor_col)))

\* The idx with the wrap taken modulo height - 1 and width - 1.
neighbor_index_short_wrap(self, r, column, delta_row, delta_col) ==
    LET neighbor_row == (r + delta_row) % (self.height - 1)
        neighbor_col == (column + delta_col) % (self.width - 1)
    IN  get_index(self, neighbor_row, neighbor_col)

\* The idx of a neighbourhood that stops at the edges of the grid: beyond the
\* first or last row or column the neighbour is the edge cell itself.
neighbor_index_clamped(self, r, column, delta_row, delta_col) ==
    LET neighbor_row == IF delta_row = 1 /\ r = self.height - 1 THEN r
                        ELSE IF delta_row = self.height - 1 /\ r = 0 THEN r
                        ELSE (r + delta_row) % self.height
        neighbor_col == IF delta_col = 1 /\ column = self.width - 1 THEN column
                        ELSE IF delta_col = self.width - 1 /\ column = 0 THEN column
                        ELSE (column + delta_col) % self.width
    IN  get_index(self, neighbor_row, neighbor_col)

\* The idx of live_neighbor_count for one pair of deltas (lines 199-201).
neighbor_index(self, r, column, delta_row, delta_col) ==
    LET neighbor_row == (r + delta_row) % self.height
        neighbor_col == (column + delta_col) % self.width
    IN  get_index(self, neighbor_row, neighbor_col)

\* One iteration of the loops of live_neighbor_count.
neighbor(self, r, column, delta_row, delta_col) ==
    IF delta_row = 0 /\ delta_col = 0
    THEN 0
    ELSE as_u8(contains(self.cells, neighbor_index(self, r, column, delta_row, delta_col)))

\* Universe::live_neighbor_count: delta_row over [height - 1, 0, 1] and
\* delta_col over [width - 1, 0, 1], in that order.
live_neighbor_count(self, r, column) ==
    LET hm == self.height - 1
        wm == self.width - 1
    IN  neighbor(self, r, column, hm, wm) + neighbor(self, r, column, hm, 0)
        + neighbor(self, r, column, hm, 1)
        + neighbor(self, r, column, 0, wm) + neighbor(self, r, column, 0, 0)
        + neighbor(self, r, column, 0, 1)
        + neighbor(self, r, column, 1, wm) + neighbor(self, r, column, 1, 0)
        + neighbor(self, r, column, 1, 1)

\* The match with a last arm that yields a live cell.
rule_default_alive(c, x) ==
    IF c /\ x < 2 THEN FALSE
    ELSE IF c /\ (x = 2 \/ x = 3) THEN TRUE
    ELSE IF c /\ x > 3 THEN FALSE
    ELSE IF ~c /\ x = 3 THEN TRUE
    ELSE TRUE

\* The match with the first arm written x <= 2 instead of x < 2.
rule_dies_on_two(c, x) ==
    IF c /\ x <= 2 THEN FALSE
    ELSE IF c /\ (x = 2 \/ x = 3) THEN TRUE
    ELSE IF c /\ x > 3 THEN FALSE
    ELSE IF ~c /\ x = 3 THEN TRUE
    ELSE c

\* The match of tick (lines 175-181), arms in order.
rule(c, x) ==
    IF c /\ x < 2 THEN FALSE
    ELSE IF c /\ (x = 2 \/ x = 3) THEN TRUE
    ELSE IF c /\ x > 3 THEN FALSE
    ELSE IF ~c /\ x = 3 THEN TRUE
    ELSE c

\* The body of tick's inner loop for (r, column): the value set at idx.
tick_cell(self, r, column) ==
    LET i  == get_index(self, r, column)
        c  == contains(self.cells, i)
        ln == live_neighbor_count(self, r, column)
    IN  rule(c, ln)

\* Universe::tick, the loops taken whole: every idx = row * width + col with
\* row < height and col < width is set once, from self.cells; any other bit of
\* the clone keeps its value.
tick(self) ==
    LET nxt == self.cells
    IN  [self EXCEPT !.cells.data =
            [b \in DOMAIN nxt.data |->
                {k \in 0..(BITS - 1) :
                    LET i == b * BITS + k
                    IN  IF i < self.height * self.width
                        THEN tick_cell(self, i \div self.width, i % self.width)
                        ELSE k \in nxt.data[b]}]]

\* Universe::width
width(self) == self.width

\* Universe::height
height(self) == self.height

(***************************************************************************)
(* impl fmt::Display for Universe.  The text is the sequence of the        *)
(* characters written; the glyphs are named by their code points.          *)
(***************************************************************************)
AliveGlyph == "U+25FB"

DeadGlyph == "U+25FC"

NewLine == "\n"

\* The u32 value 1.
U32One == {0}

\* The characters written for one chunk: a glyph per element, then "\n".
fmt_line(line) ==
    [i \in 1..(Len(line) + 1) |->
        IF i <= Len(line)
        THEN (IF line[i] = U32One THEN AliveGlyph ELSE DeadGlyph)
        ELSE NewLine]

RECURSIVE fmt_lines(_, _)
fmt_lines(lines, j) ==
    IF j > Len(lines) THEN <<>> ELSE fmt_line(lines[j]) \o fmt_lines(lines, j + 1)

\* Display::fmt
fmt(self) == fmt_lines(chunks(as_slice(self.cells), self.width), 1)

\* Universe::render
render(self) == fmt(self)

(***************************************************************************)
(* The heap buffers behind the bit sets.  A buffer is named by the number  *)
(* of the allocation that built it: heap.cells is the buffer of            *)
(* self.cells, heap.built the buffer of a bit set built by the running     *)
(* operation and not yet assigned (0: none), heap.allocated the number of  *)
(* allocations so far.  heap.held is history: what cells() returned just   *)
(* before the last operation began.                                        *)
(***************************************************************************)
\* Universe::cells: the address of the buffer of self.cells.
cells(h) == h.cells

\* Universe::new: the one buffer of with_capacity(size).
new_heap == [cells |-> 1, built |-> 0, allocated |-> 1, held |-> 1]

\* A caller reads cells() before the operation begins.
hold(h) == [h EXCEPT !.held = cells(h)]

\* An operation that builds no buffer and works on the one self.cells has.
allocate_none(h) == [h EXCEPT !.built = h.cells]

\* self.cells.clone() and FixedBitSet::with_capacity(size): a bit set with a
\* buffer of its own, allocated while the buffer of self.cells is live.
allocate(h) == [h EXCEPT !.allocated = @ + 1, !.built = h.allocated + 1]

\* self.cells = next: the built bit set moves into the field and the buffer
\* the field had is dropped.
assign_cells(h) == [h EXCEPT !.cells = h.built, !.built = 0]

(***************************************************************************)
(* Operations as actions.  Each operation runs to completion (&mut self).  *)
(***************************************************************************)
Done(u, name) ==
    /\ pc = "idle"
    /\ universe' = u
    /\ pre' = universe
    /\ last' = name
    /\ ticks' = 0
    /\ ops' = ops + 1
    /\ heap' = assign_cells(allocate(hold(heap)))
    /\ UNCHANGED locals

DoClear == Done(clear(universe), "clear")

DoPutRandom == \E draws \in RandomDraws : Done(put_random(universe, draws), "put_random")

DoPutGlider == Done(put_glider(universe), "put_glider")

DoPutSpaceship == Done(put_spaceship(universe), "put_spaceship")

DoPutLine == Done(put_line(universe), "put_line")

DoPutNebra == Done(put_nebra(universe), "put_nebra")

DoTick ==
    /\ pc = "idle"
    /\ universe' = tick(universe)
    /\ pre' = universe
    /\ ticks' = ticks + 1
    /\ ops' = ops + 1
    /\ heap' = assign_cells(allocate(hold(heap)))
    /\ UNCHANGED <<last, locals>>

NoLocals ==
    /\ pc = "idle"
    /\ next = with_capacity(0)
    /\ row = 0
    /\ col = 0
    /\ idx = 0
    /\ cell = FALSE
    /\ live_neighbors = 0

\* After Universe::new(ty), for either InitType and the explored draws.
Init ==
    /\ \E ty \in {"Random", "Clear"} :
          \E draws \in RandomDraws : universe = new(ty, draws)
    /\ pre = universe
    /\ last = "new"
    /\ ticks = 0
    /\ ops = 0
    /\ heap = new_heap
    /\ NoLocals

Clear == ops < MaxOps /\ DoClear

PutRandom == ops < MaxOps /\ DoPutRandom

PutGlider == ops < MaxOps /\ DoPutGlider

PutSpaceship == ops < MaxOps /\ DoPutSpaceship

PutLine == ops < MaxOps /\ DoPutLine

PutNebra == ops < MaxOps /\ DoPutNebra

Tick == ops < MaxOps /\ DoTick

Next ==
    \/ Clear
    \/ PutRandom
    \/ PutGlider
    \/ PutSpaceship
    \/ PutLine
    \/ PutNebra
    \/ Tick

Spec == Init /\ [][Next]_vars

(***************************************************************************)
(* SpecRun: a run that seeds one preset on an all-dead grid (after         *)
(* new(Clear), or after clear()) and then only ticks.                      *)
(***************************************************************************)
\* Every block of the bit set is zero.
is_clear(fbs) == \A b \in DOMAIN fbs.data : fbs.data[b] = {}

Fresh == ticks = 0 /\ last \in {"new", "clear"} /\ is_clear(universe.cells)

RunClear == ops = 0 /\ ~is_clear(universe.cells) /\ DoClear

RunPutGlider == Fresh /\ DoPutGlider

RunPutSpaceship == Fresh /\ DoPutSpaceship

RunPutLine == Fresh /\ DoPutLine

RunPutNebra == Fresh /\ DoPutNebra

RunTick ==
    /\ last \in {"put_glider", "put_spaceship", "put_line", "put_nebra"}
    /\ ticks < MaxTicks
    /\ DoTick

NextRun ==
    \/ RunClear
    \/ RunPutGlider
    \/ RunPutSpaceship
    \/ RunPutLine
    \/ RunPutNebra
    \/ RunTick

SpecRun == Init /\ [][NextRun]_vars

(***************************************************************************)
(* SpecStep: tick taken one statement group at a time (lines 165-185), to  *)
(* observe the state inside the call.  No other operation runs inside a    *)
(* tick: tick holds &mut self.                                             *)
(***************************************************************************)
\* let mut next = self.cells.clone(); and the loops are entered
TickBegin ==
    /\ pc = "idle"
    /\ ticks < MaxStepTicks
    /\ pc' = "loop"
    /\ next' = universe.cells
    /\ row' = 0
    /\ col' = 0
    /\ pre' = universe
    /\ heap' = allocate(hold(heap))
    /\ UNCHANGED <<universe, last, ticks, ops, idx, cell, live_neighbors>>

\* The inner loop writing into self.cells as well as into next.
TickCellInPlace ==
    /\ pc = "loop"
    /\ row < universe.height
    /\ col < universe.width
    /\ idx' = get_index(universe, row, col)
    /\ cell' = contains(universe.cells, idx')
    /\ live_neighbors' = live_neighbor_count(universe, row, col)
    /\ next' = set(next, idx', rule(cell', live_neighbors'))
    /\ universe' = [universe EXCEPT !.cells = set(@, idx', rule(cell', live_neighbors'))]
    /\ IF col + 1 < universe.width
       THEN row' = row /\ col' = col + 1
       ELSE row' = row + 1 /\ col' = 0
    /\ UNCHANGED <<pre, last, ticks, ops, pc, heap>>

\* One iteration of the inner loop (lines 169-182), then the loop variables
\* step to the next (row, col).
TickCell ==
    /\ pc = "loop"
    /\ row < universe.height
    /\ col < universe.width
    /\ idx' = get_index(universe, row, col)
    /\ cell' = contains(universe.cells, idx')
    /\ live_neighbors' = live_neighbor_count(universe, row, col)
    /\ next' = set(next, idx', rule(cell', live_neighbors'))
    /\ IF col + 1 < universe.width
       THEN row' = row /\ col' = col + 1
       ELSE row' = row + 1 /\ col' = 0
    /\ UNCHANGED <<universe, pre, last, ticks, ops, pc, heap>>

\* self.cells = next; (line 185), the loops being over
TickEnd ==
    /\ pc = "loop"
    /\ row >= universe.height
    /\ universe' = [universe EXCEPT !.cells = next]
    /\ pc' = "idle"
    /\ ticks' = ticks + 1
    /\ ops' = ops + 1
    /\ heap' = assign_cells(heap)
    /\ UNCHANGED <<pre, last, next, row, col, idx, cell, live_neighbors>>

StepPutGlider == ops = 0 /\ DoPutGlider

NextStep ==
    \/ StepPutGlider
    \/ TickBegin
    \/ TickCell
    \/ TickEnd

SpecStep == Init /\ [][NextStep]_vars

(***************************************************************************)
(* SpecGlider: put_glider on the grid of new(Clear), then tick calls only, *)
(* long enough for the glider to travel once around the torus.             *)
(***************************************************************************)
GliderPut == Fresh /\ last = "new" /\ DoPutGlider

GliderTick ==
    /\ last = "put_glider"
    /\ ticks < MaxGliderTicks
    /\ DoTick

NextGlider ==
    \/ GliderPut
    \/ GliderTick

SpecGlider == Init /\ [][NextGlider]_vars

(***************************************************************************)
(* Vocabulary of the properties: the grid read cell by cell.               *)
(***************************************************************************)
\* The cell at row r, column c of u is alive: bit r * width + c is one.
Alive(u, r, c) ==
    LET i == r * u.width + c
    IN  (i % 32) \in u.cells.data[i \div 32]

\* The linear indices of the live cells of u.
LiveBits(u) ==
    UNION {{b * 32 + k : k \in u.cells.data[b]} : b \in DOMAIN u.cells.data}

AllDead(u) == LiveBits(u) = {}

\* The 8 offsets of the toroidal neighbourhood.
Offsets == ({-1, 0, 1} \X {-1, 0, 1}) \ {<<0, 0>>}

\* The number of live cells among the 8 toroidal neighbours of (r, c).
LiveNeighbours(u, r, c) ==
    Cardinality({d \in Offsets :
        Alive(u, (r + d[1]) % u.height, (c + d[2]) % u.width)})

\* The Life rule relating a cell of u0 to the same cell of u1.
LifeRuleAt(u0, u1, r, c) ==
    LET a  == Alive(u0, r, c)
        n  == LiveNeighbours(u0, r, c)
        a1 == Alive(u1, r, c)
    IN  /\ (a /\ n < 2) => ~a1
        /\ (a /\ (n = 2 \/ n = 3)) => a1
        /\ (a /\ n > 3) => ~a1
        /\ (~a /\ n = 3) => a1
        /\ (~a /\ n # 3) => ~a1

Rows(u) == 0..(u.height - 1)

Cols(u) == 0..(u.width - 1)

Presets == {"put_glider", "put_spaceship", "put_line", "put_nebra"}

\* The point list of a preset.
PointsOf(name) ==
    CASE name = "put_glider" -> GliderPoints
      [] name = "put_spaceship" -> SpaceshipPoints
      [] name = "put_line" -> LinePoints
      [] name = "put_nebra" -> NebraPoints

PointSet(name) == {PointsOf(name)[i] : i \in DOMAIN PointsOf(name)}

\* The last operation was the preset `last`, applied to `pre`.
AfterPreset == last \in Presets /\ ticks = 0

\* The last operation was tick, applied to `pre`.
AfterTick == ticks > 0 /\ pc = "idle"

(***************************************************************************)
(* C1.  tick sets every cell by the Life rule applied to the cell's        *)
(* pre-tick state and its pre-tick number n of live neighbours: a live     *)
(* cell with n < 2 dies, with n = 2 or 3 stays alive, with n > 3 dies; a   *)
(* dead cell with n = 3 becomes alive and with n # 3 stays dead.  A grid   *)
(* whose only live cell has no live neighbour is all dead after the tick.  *)
(***************************************************************************)
C1_TickAppliesLifeRule ==
    AfterTick =>
        /\ \A r \in Rows(pre), c \in Cols(pre) : LifeRuleAt(pre, universe, r, c)
        /\ Cardinality(LiveBits(pre)) = 1 => AllDead(universe)

\* A tick has acted on a grid that shows every arm of the rule.
C1_Witness ==
    /\ AfterTick
    /\ \E r \in Rows(pre), c \in Cols(pre) :
          Alive(pre, r, c) /\ LiveNeighbours(pre, r, c) < 2 /\ ~Alive(universe, r, c)
    /\ \E r \in Rows(pre), c \in Cols(pre) :
          Alive(pre, r, c) /\ LiveNeighbours(pre, r, c) = 2 /\ Alive(universe, r, c)
    /\ \E r \in Rows(pre), c \in Cols(pre) :
          Alive(pre, r, c) /\ LiveNeighbours(pre, r, c) > 3 /\ ~Alive(universe, r, c)
    /\ \E r \in Rows(pre), c \in Cols(pre) :
          ~Alive(pre, r, c) /\ LiveNeighbours(pre, r, c) = 3 /\ Alive(universe, r, c)

\* tick has evaluated at least one cell; idx, cell and live_neighbors are those
\* of the cell evaluated last.
Evaluated == (pc = "loop" /\ (row > 0 \/ col > 0)) \/ AfterTick

(***************************************************************************)
(* C2.  For every cell (row, col), live_neighbor_count returns the number  *)
(* of live cells among exactly the 8 positions ((row + dr) mod height,     *)
(* (col + dc) mod width), dr, dc in {-1, 0, 1}, (dr, dc) # (0, 0): edges   *)
(* wrap, and the cell itself is never counted.  (tick calls it for every   *)
(* cell in turn.)                                                          *)
(***************************************************************************)
C2_NeighbourCountIsToroidal ==
    Evaluated =>
        live_neighbors = LiveNeighbours(pre, idx \div pre.width, idx % pre.width)

\* The count for the live cell (0, 0) includes the live cell (63, 63).
C2_Witness ==
    /\ Evaluated
    /\ idx = 0
    /\ Alive(pre, 0, 0)
    /\ Alive(pre, pre.height - 1, pre.width - 1)
    /\ LiveBits(pre) = {0, 63, 4032, 4095}
    /\ live_neighbors = 3

(***************************************************************************)
(* C3.  During a tick the current grid is not modified while the cells     *)
(* are evaluated: every cell's next value is computed from the pre-tick    *)
(* grid and written to the separate buffer `next`, and the current grid    *)
(* is replaced once, by that buffer, after the last cell.                  *)
(***************************************************************************)
C3_TickDoubleBuffers ==
    /\ pc = "loop" => universe = pre
    /\ Evaluated =>
          LifeRuleAt(pre, [pre EXCEPT !.cells = next],
                     idx \div pre.width, idx % pre.width)
    /\ AfterTick =>
          /\ universe.cells = next
          /\ \A r \in Rows(pre), c \in Cols(pre) : LifeRuleAt(pre, universe, r, c)

\* Inside a tick the buffer already differs from the current grid, which is
\* still the pre-tick grid.
C3_Witness ==
    /\ pc = "loop"
    /\ row < universe.height
    /\ Evaluated
    /\ next # universe.cells
    /\ universe = pre

\* The positions of the line breaks of a text.
LineEnds(text) == {i \in DOMAIN text : text[i] = NewLine}

LineCount(text) == Cardinality(LineEnds(text))

\* The position of the line break ending line k (k from 1).
LineEndAt(text, k) ==
    CHOOSE e \in LineEnds(text) : Cardinality({j \in LineEnds(text) : j <= e}) = k

LineStartAt(text, k) == IF k = 1 THEN 1 ELSE LineEndAt(text, k - 1) + 1

LineLen(text, k) == LineEndAt(text, k) - LineStartAt(text, k)

(***************************************************************************)
(* C4.  The text returned by render has exactly height (64) lines, each    *)
(* of exactly width (64) glyphs.                                           *)
(***************************************************************************)
C4_RenderShape ==
    LET text == render(universe)
    IN  /\ LineCount(text) = 64
        /\ LineCount(text) = universe.height
        /\ \A k \in 1..LineCount(text) :
              /\ LineLen(text, k) = 64
              /\ LineLen(text, k) = universe.width

(***************************************************************************)
(* C5.  render emits one glyph per cell, rows top to bottom and columns    *)
(* left to right: the glyph at line r, position c is the alive glyph iff   *)
(* the cell at row r, column c (bit r * width + c) is alive, and the dead  *)
(* glyph otherwise.                                                        *)
(***************************************************************************)
C5_RenderGlyphs ==
    LET text == render(universe)
    IN  \A r \in Rows(universe), c \in Cols(universe) :
            /\ r + 1 <= LineCount(text)
            /\ c < LineLen(text, r + 1)
            /\ text[LineStartAt(text, r + 1) + c] =
                  (IF Alive(universe, r, c) THEN AliveGlyph ELSE DeadGlyph)

(***************************************************************************)
(* C6.  Starting from an all-dead grid, put_glider followed by exactly 4   *)
(* tick calls leaves exactly 5 live cells: the 5 cells put_glider set,     *)
(* each moved by +1 column and +1 row.                                     *)
(***************************************************************************)
C6_GliderPeriod ==
    (last = "put_glider" /\ ticks = 4 /\ pc = "idle") =>
        /\ Cardinality(LiveBits(universe)) = 5
        /\ \A r \in Rows(universe), c \in Cols(universe) :
              Alive(universe, r, c) <=> <<c - 5 - 1, r - 5 - 1>> \in PointSet("put_glider")

\* Four ticks have acted on the glider seeded on an all-dead grid.
C6_Witness ==
    /\ last = "put_glider"
    /\ ticks = 4
    /\ LiveBits(universe) = {326 + 65, 391 + 65, 453 + 65, 454 + 65, 455 + 65}

(***************************************************************************)
(* C7.  Every preset is additive from any state: no cell alive before the  *)
(* call is dead after it, and every cell that is not a target of the       *)
(* preset keeps its state.                                                 *)
(***************************************************************************)
C7_PresetsAreAdditive ==
    AfterPreset =>
        \A r \in Rows(pre), c \in Cols(pre) :
            /\ Alive(pre, r, c) => Alive(universe, r, c)
            /\ <<c - 5, r - 5>> \notin PointSet(last) =>
                  (Alive(universe, r, c) <=> Alive(pre, r, c))

\* put_nebra has acted on a grid holding the glider: both patterns are alive.
C7_Witness ==
    /\ last = "put_nebra"
    /\ ticks = 0
    /\ \A p \in PointSet("put_glider") : Alive(pre, p[2] + 5, p[1] + 5)
    /\ \E p \in PointSet("put_nebra") : ~Alive(pre, p[2] + 5, p[1] + 5)
    /\ \A p \in PointSet("put_glider") \cup PointSet("put_nebra") :
          Alive(universe, p[2] + 5, p[1] + 5)

(***************************************************************************)
(* C8.  put_points sets, for each listed point (x, y), exactly the bit at  *)
(* linear index (y + 5) * width + (x + 5): the cell at column x + 5 and    *)
(* row y + 5.                                                              *)
(***************************************************************************)
C8_PutPointsIndex ==
    AfterPreset =>
        LiveBits(universe) =
            LiveBits(pre) \cup
                {(p[2] + 5) * pre.width + (p[1] + 5) : p \in PointSet(last)}

\* put_glider has acted on an all-dead grid and set bits 326, 391, 453..455.
C8_Witness ==
    /\ last = "put_glider"
    /\ ticks = 0
    /\ AllDead(pre)
    /\ LiveBits(universe) = {326, 391, 453, 454, 455}

(***************************************************************************)
(* C9.  clear yields the all-dead grid of unchanged dimensions, the state  *)
(* new(Clear) produces, and clearing that grid again yields it again.      *)
(***************************************************************************)
C9_ClearResets ==
    (last = "clear" /\ ticks = 0) =>
        /\ AllDead(universe)
        /\ universe.width = pre.width
        /\ universe.height = pre.height
        /\ \A draws \in RandomDraws : universe = new("Clear", draws)
        /\ clear(universe) = universe

\* clear has acted on a grid that had live cells.
C9_Witness == last = "clear" /\ ticks = 0 /\ ~AllDead(pre)

(***************************************************************************)
(* C10.  After construction and after any sequence of operations,          *)
(* width = 64, height = 64 and the bit array has exactly                   *)
(* width * height = 4096 bits.                                             *)
(***************************************************************************)
C10_Dimensions ==
    /\ universe.width = 64
    /\ universe.height = 64
    /\ universe.cells.length = 4096
    /\ universe.cells.length = universe.width * universe.height

\* Several operations have acted, a tick the last of them.
C10_Witness == ops >= 2 /\ AfterTick /\ last # "new" /\ C10_Dimensions

(***************************************************************************)
(* C11.  Every public operation is total on every reachable state: each    *)
(* preset's coordinates after the +5 offset lie within                     *)
(* [0, width) x [0, height), and every bit index computed by put_points,   *)
(* tick and live_neighbor_count is below width * height, so no set call    *)
(* fails its bounds assertion.                                             *)
(***************************************************************************)
C11_OperationsAreTotal ==
    LET size == universe.width * universe.height
    IN  /\ size <= universe.cells.length
        /\ \A name \in Presets : \A p \in PointSet(name) :
              /\ p[1] + 5 \in Cols(universe)
              /\ p[2] + 5 \in Rows(universe)
              /\ point_index(universe, p) < size
              /\ set_in_bounds(universe.cells, point_index(universe, p))
        /\ (pc = "loop" /\ row < universe.height) =>
              /\ col < universe.width
              /\ get_index(universe, row, col) < size
              /\ set_in_bounds(next, get_index(universe, row, col))
              /\ \A dr \in {universe.height - 1, 0, 1}, dc \in {universe.width - 1, 0, 1} :
                    neighbor_index(universe, row, col, dr, dc) < size
        /\ Evaluated => (idx < size /\ set_in_bounds(next, idx))

\* tick, after put_glider, has evaluated the last cell of the first row,
\* whose neighbourhood wraps around the top and the right edge.
C11_Witness ==
    /\ pc = "loop"
    /\ last = "put_glider"
    /\ idx = universe.width - 1
    /\ row = 1
    /\ col = 0
    /\ C11_OperationsAreTotal

(***************************************************************************)
(* C12.  put_random replaces rather than merges: the grid after put_random *)
(* is determined by the random draws alone (cell i is alive iff the i-th   *)
(* draw is below 0.5) and does not depend on the prior grid, so two        *)
(* universes with different prior grids that receive the same sequence of  *)
(* draws end in identical grids.                                           *)
(***************************************************************************)
AfterRandom == last = "put_random" /\ ticks = 0

DrawnAlive(u, draws) ==
    \A i \in 0..(u.width * u.height - 1) : contains(u.cells, i) <=> draws[i] < Half

C12_PutRandomReplaces ==
    AfterRandom =>
        /\ \E draws \in RandomDraws : DrawnAlive(universe, draws)
        /\ \A draws \in RandomDraws :
              put_random(pre, draws) = put_random(universe, draws)

\* put_random ran on a grid holding a live cell that the draws left dead.
C12_Witness ==
    /\ AfterRandom
    /\ ~AllDead(universe)
    /\ \E i \in LiveBits(pre) : ~contains(universe.cells, i)

(***************************************************************************)
(* C14.  Applied to an all-dead grid, each preset yields exactly its       *)
(* stated number of live cells: put_glider 5, put_spaceship 9, put_line 48 *)
(* (its 48 generated points are pairwise distinct), and put_nebra 6, the   *)
(* six lying in one row in consecutive columns.                            *)
(***************************************************************************)
StatedCount(name) ==
    CASE name = "put_glider" -> 5
      [] name = "put_spaceship" -> 9
      [] name = "put_line" -> 48
      [] name = "put_nebra" -> 6

OnAllDead == AfterPreset /\ AllDead(pre)

C14_PresetCounts ==
    OnAllDead =>
        /\ Cardinality(LiveBits(universe)) = StatedCount(last)
        /\ last = "put_line" =>
              /\ Len(LinePoints) = 48
              /\ \A j, k \in DOMAIN LinePoints :
                    j # k => LinePoints[j] # LinePoints[k]
        /\ last = "put_nebra" =>
              \E r \in Rows(universe), c \in Cols(universe) :
                  /\ c + 5 \in Cols(universe)
                  /\ \A rr \in Rows(universe), cc \in Cols(universe) :
                        Alive(universe, rr, cc) <=> (rr = r /\ cc \in c..(c + 5))

\* put_line ran on an all-dead grid and left live cells.
C14_Witness == OnAllDead /\ last = "put_line" /\ ~AllDead(universe)

(***************************************************************************)
(* C15.  Every mutating operation (tick, clear, put_random, and each put_* *)
(* preset) replaces the cells buffer wholesale with a newly built buffer   *)
(* of the same length, so a raw buffer reference obtained from cells()     *)
(* before the operation does not refer to the universe's current buffer    *)
(* after it.                                                               *)
(***************************************************************************)
AfterOperation == ops > 0 /\ pc = "idle"

C15_BufferIsReplaced ==
    AfterOperation =>
        /\ heap.held # cells(heap)
        /\ cells(heap) = heap.allocated
        /\ heap.built = 0
        /\ universe.cells.length = pre.cells.length
        /\ DOMAIN universe.cells.data = DOMAIN pre.cells.data

\* A tick has replaced the buffer a preset had built.
C15_Witness ==
    /\ AfterOperation
    /\ AfterTick
    /\ last \in Presets
    /\ heap.held > 1
    /\ heap.held # cells(heap)

(***************************************************************************)
(* C16.  The all-dead grid is a fixed point of tick: once every cell is    *)
(* dead (after new(Clear) or clear()), any number of tick calls leaves     *)
(* every cell dead, and a live cell can appear again only through          *)
(* put_random or a put_* preset.                                           *)
(***************************************************************************)
C16_AllDeadIsFixedPoint ==
    /\ (AfterTick /\ AllDead(pre)) => AllDead(universe)
    /\ last = "clear" => AllDead(universe)
    /\ (ops > 0 /\ AllDead(pre) /\ ~AllDead(universe)) =>
          (ticks = 0 /\ last \in Presets \cup {"put_random"})

\* Two ticks have run on the grid of new(Clear), all cells staying dead.
C16_Witness ==
    /\ last = "new"
    /\ ticks = 2
    /\ pc = "idle"
    /\ AllDead(pre)
    /\ AllDead(universe)

(***************************************************************************)
(* C17.  Starting from an all-dead grid, put_spaceship followed by exactly *)
(* 4 tick calls leaves exactly 9 live cells, and they are the 9 cells      *)
(* put_spaceship set, each translated by +2 columns and 0 rows.            *)
(***************************************************************************)
C17_SpaceshipPeriod ==
    (last = "put_spaceship" /\ ticks = 4 /\ pc = "idle") =>
        /\ Cardinality(LiveBits(universe)) = 9
        /\ \A r \in Rows(universe), c \in Cols(universe) :
              Alive(universe, r, c) <=>
                  <<c - 5 - 2, r - 5>> \in PointSet("put_spaceship")

\* The spaceship after its fourth tick, two columns to the right.
C17_Witness ==
    /\ last = "put_spaceship"
    /\ ticks = 4
    /\ pc = "idle"
    /\ LiveBits(universe) =
          {index(p[1] + 5 + 2, p[2] + 5, universe.width) : p \in PointSet("put_spaceship")}

(***************************************************************************)
(* C18.  Starting from an all-dead grid, put_glider followed by exactly    *)
(* 4 * 64 = 256 tick calls returns the grid to exactly the state it had    *)
(* immediately after put_glider: the glider crosses the right and bottom   *)
(* edges and wraps around the torus without being destroyed.  On the way,  *)
(* after every 4 ticks the glider is one more row down and one more column *)
(* to the right, modulo height and width.                                  *)
(***************************************************************************)
GliderAt(u, k) ==
    {get_index(u, (p[2] + 5 + k) % u.height, (p[1] + 5 + k) % u.width) :
        p \in PointSet("put_glider")}

C18_GliderRoundTrip ==
    (last = "put_glider" /\ pc = "idle") =>
        /\ ticks % 4 = 0 => LiveBits(universe) = GliderAt(universe, ticks \div 4)
        /\ ticks = 4 * 64 =>
              /\ LiveBits(universe) = GliderAt(universe, 0)
              /\ universe = put_glider(clear(universe))

\* The glider back at its first position after 256 ticks.
C18_Witness ==
    /\ last = "put_glider"
    /\ ticks = 256
    /\ pc = "idle"
    /\ LiveBits(universe) = {326, 391, 453, 454, 455}

(***************************************************************************)
(* C19.  tick commutes with toroidal translation: for every grid g and     *)
(* every shift (dx, dy), translating g by (dx, dy) modulo (width, height)  *)
(* and then applying tick yields the same grid as applying tick to g and   *)
(* then translating the result by (dx, dy); no row or column of the grid   *)
(* is treated specially.                                                   *)
(***************************************************************************)
\* u with every cell moved dx columns right and dy rows down on the torus.
Translate(u, dx, dy) ==
    [u EXCEPT !.cells.data =
        [b \in DOMAIN u.cells.data |->
            {k \in 0..31 :
                LET i == b * 32 + k
                    r == i \div u.width
                    c == i % u.width
                IN  Alive(u, (r + u.height - (dy % u.height)) % u.height,
                             (c + u.width - (dx % u.width)) % u.width)}]]

\* The shifts explored: one column, one row, and one that carries the
\* presets across the right and bottom edges.
Shifts == {<<1, 0>>, <<0, 1>>, <<57, 58>>}

C19_TickCommutesWithTranslation ==
    AfterTick =>
        \A s \in Shifts :
            tick(Translate(pre, s[1], s[2])) = Translate(universe, s[1], s[2])

\* A tick of a grid whose translate lies across the right edge, and the tick
\* changed the grid.
C19_Witness ==
    /\ AfterTick
    /\ ticks = 1
    /\ last = "put_line"
    /\ universe # pre
    /\ \E r \in Rows(pre) :
          /\ Alive(Translate(pre, 57, 58), r, 0)
          /\ Alive(Translate(pre, 57, 58), r, pre.width - 1)

====
